---- MODULE Spec2Model ----
(***************************************************************************)
(* Request-lifecycle model of the fetch hooks of @untools/react-query-hooks *)
(* (useQuery, usePaginatedQuery, useInfiniteQuery, useDebounce).            *)
(*                                                                         *)
(* One step of the model is one event of the host's single-threaded event  *)
(* loop: a call of a public operation, a change of the `enabled` prop, the *)
(* expiry of the debounce timer, the settling of a producer promise, or    *)
(* the unmount of the component.  An event applies its state updates and   *)
(* then commits the resulting renders: every effect whose dependencies     *)
(* changed runs, in declaration order, and the commit repeats while the    *)
(* effects themselves changed a dependency.                                *)
(***************************************************************************)
EXTENDS Integers, Sequences, FiniteSets

\* ------------------------------------------------------------------ bounds
MaxVal == 1
MaxPage == 2
MaxDelay == 1
MaxInFlight == 2
MaxInput == 2
MaxDebounceDelay == 2
MaxTimers == 2
MaxBurst == 2
MaxRef == 2
MaxPageDeep == 3

\* ------------------------------------------------------- program constants
DefaultLimit == 10
DefaultPageSize == 10

\* ------------------------------------------------------------------ values
\* JavaScript null / undefined.
Null == [null |-> TRUE]
Undefined == [undefined |-> TRUE]

\* Absent timer handle.
NoTimer == -1

\* Objects handed to the setters.  The hooks compare them with !==, by
\* reference: two records of the model are the same object iff they are equal.
FilterVals == {Undefined} \cup [val : 1..MaxVal]
SortVals == {Undefined} \cup [val : 1..MaxVal]
PaginationVals == [page : 1..MaxPage, limit : {DefaultLimit}]

Truthy(v) == v # Undefined /\ v # Null

\* Failure values a producer may reject with: a plain string, an object
\* whose `message` is a string, an object without a string `message`.
Failures ==
    { [typeof |-> "string", value |-> "API error"],
      [typeof |-> "object", messageTypeof |-> "string", message |-> "Test error"],
      [typeof |-> "object", messageTypeof |-> "undefined"] }

\* The catch block's message without the case of a plain string.
ErrorMessageNoString(f) ==
    IF f.typeof = "object" /\ f.messageTypeof = "string" THEN f.message
    ELSE "Unknown error"

\* The message of the Error built in the catch block.
ErrorMessage(f) ==
    IF f.typeof = "string" THEN f.value
    ELSE IF f.messageTypeof = "string" THEN f.message
    ELSE "Unknown error"

NewError(f) == [message |-> ErrorMessage(f)]

\* ------------------------------------------------------------------- state
\* hook: the hook the component under observation uses.
\* q, pq, iq: the instance of useQuery, usePaginatedQuery, useInfiniteQuery.
\* db: the instance of useDebounce used on its own (described with it).
\* Each is a record of the hook's React state, its refs, its props, and of
\* the environment's view of it: `alive` (the component is mounted),
\* `inflight` (the producer invocations whose promise has not settled, in
\* the order they were made), `store` (the last value given to the external
\* setState) and `setStateCalled` (the last event called the external
\* setState).
VARIABLES hook, q, pq, iq, db

vars == <<hook, q, pq, iq, db>>

Hooks == {"useQuery", "usePaginatedQuery", "useInfiniteQuery", "useDebounce"}

RemoveAt(seq, i) == SubSeq(seq, 1, i - 1) \o SubSeq(seq, i + 1, Len(seq))

\* The instance at the start of an event.
Now(s) == [s EXCEPT !.setStateCalled = FALSE]

\* ================================================================ useQuery
\* What the producer may resolve with.
QResults == { [id |-> 1, name |-> "x"], Undefined }

\* What state.getState() may return at construction.
QCached == { Undefined, [id |-> 2, name |-> "cached"] }

\* The hook's state right after the first render, before any effect ran.
QFirstRender(immediate, cached) ==
    [data |-> IF Truthy(cached) THEN cached ELSE Null,
     error |-> Null,
     isLoading |-> immediate,
     isMounted |-> TRUE,
     requestInProgress |-> FALSE,
     immediate |-> immediate,
     alive |-> TRUE,
     inflight |-> <<>>,
     store |-> cached,
     setStateCalled |-> FALSE]

\* The guard without the in-flight flag.
QFetchGuardMountedOnly(s) == s.isMounted

QFetchGuard(s) == ~(~s.isMounted \/ s.requestInProgress)

\* fetchData up to the await, leaving the previous error in place.
QFetchDataKeepsError(s) ==
    IF ~QFetchGuard(s) THEN s
    ELSE [s EXCEPT !.requestInProgress = TRUE,
                   !.isLoading = TRUE,
                   !.inflight = Append(@, [service |-> TRUE])]

\* fetchData up to the await.
QFetchData(s) ==
    IF ~QFetchGuard(s) THEN s
    ELSE [s EXCEPT !.requestInProgress = TRUE,
                   !.isLoading = TRUE,
                   !.error = Null,
                   !.inflight = Append(@, [service |-> TRUE])]

\* fetchData from the await on, for the request resolved with `result`.
QResolve(s, result) ==
    LET a == IF s.isMounted
             THEN [s EXCEPT !.data = result,
                            !.store = result,
                            !.setStateCalled = TRUE]
             ELSE s
        b == [a EXCEPT !.requestInProgress = FALSE]
    IN  IF b.isMounted THEN [b EXCEPT !.isLoading = FALSE] ELSE b

\* fetchData from the await on, for the request rejected with `failure`.
QReject(s, failure) ==
    LET a == IF s.isMounted THEN [s EXCEPT !.error = NewError(failure)] ELSE s
        b == [a EXCEPT !.requestInProgress = FALSE]
    IN  IF b.isMounted THEN [b EXCEPT !.isLoading = FALSE] ELSE b

\* The mount effect fetching whatever `immediate` is.
QMountEffectAlways(s) ==
    QFetchData([s EXCEPT !.isMounted = TRUE, !.requestInProgress = FALSE])

\* The mount effect, deps [immediate, fetchData].
QMountEffect(s) ==
    LET a == [s EXCEPT !.isMounted = TRUE, !.requestInProgress = FALSE]
    IN  IF a.immediate THEN QFetchData(a) ELSE a

QMountCleanup(s) == [s EXCEPT !.isMounted = FALSE]

QInit(immediate, cached) == QMountEffect(QFirstRender(immediate, cached))

\* --------------------------------------------------------- useQuery events
QActive == hook = "useQuery"

QBounded(s) == Len(s.inflight) <= MaxInFlight

\* refresh()
QRefresh ==
    /\ QActive
    /\ q' = QFetchData(Now(q))
    /\ QBounded(q')
    /\ UNCHANGED <<hook, pq, iq, db>>

\* The producer's promise of the i-th outstanding invocation resolves.
QSettleOk(i) ==
    /\ QActive
    /\ i \in 1..Len(q.inflight)
    /\ \E result \in QResults :
          q' = QResolve([Now(q) EXCEPT !.inflight = RemoveAt(@, i)], result)
    /\ UNCHANGED <<hook, pq, iq, db>>

\* The producer's promise of the i-th outstanding invocation rejects.
QSettleFail(i) ==
    /\ QActive
    /\ i \in 1..Len(q.inflight)
    /\ \E failure \in Failures :
          q' = QReject([Now(q) EXCEPT !.inflight = RemoveAt(@, i)], failure)
    /\ UNCHANGED <<hook, pq, iq, db>>

\* The component unmounts: the effect's cleanup runs.
QUnmount ==
    /\ QActive
    /\ q.alive
    /\ q' = [QMountCleanup(Now(q)) EXCEPT !.alive = FALSE]
    /\ UNCHANGED <<hook, pq, iq, db>>

QNext ==
    \/ QRefresh
    \/ \E i \in 1..MaxInFlight : QSettleOk(i)
    \/ \E i \in 1..MaxInFlight : QSettleFail(i)
    \/ QUnmount

\* ====================================================== usePaginatedQuery
PEmptyResult ==
    [data |-> <<>>,
     meta |-> [page |-> 1, limit |-> DefaultLimit, pages |-> 1, total |-> 0,
               hasNextPage |-> FALSE, hasPrevPage |-> FALSE]]

PInitialPagination == [page |-> 1, limit |-> DefaultLimit]

\* What the producer may resolve with for a request.
PResults(req) ==
    LET page == IF "page" \in DOMAIN req.pagination
                THEN req.pagination.page ELSE 1
    IN  { [data |-> <<page>>,
           meta |-> [page |-> page, limit |-> req.pagination.limit,
                     pages |-> MaxPage, total |-> MaxPage,
                     hasNextPage |-> page < MaxPage,
                     hasPrevPage |-> page > 1]] }

\* The hook's state right after the first render, before any effect ran.
PFirstRender(en, dt) ==
    [data |-> PEmptyResult,
     error |-> Null,
     isLoading |-> en,
     filters |-> Undefined,
     pagination |-> PInitialPagination,
     sort |-> Undefined,
     isMounted |-> TRUE,
     requestInProgress |-> FALSE,
     debouncedFilters |-> Undefined,
     timer |-> NoTimer,
     prevFiltersRef |-> Undefined,
     prevPaginationRef |-> PInitialPagination,
     prevSortRef |-> Undefined,
     enabled |-> en,
     debounceTime |-> dt,
     alive |-> TRUE,
     inflight |-> <<>>,
     store |-> Undefined,
     setStateCalled |-> FALSE]

\* The values the closures of one render capture.
PRender(s) ==
    [filters |-> s.filters,
     debouncedFilters |-> s.debouncedFilters,
     pagination |-> s.pagination,
     sort |-> s.sort,
     enabled |-> s.enabled]

\* The render before the first one: every effect runs on mount.
NoRender == [mount |-> TRUE]

\* The guard without the in-flight flag.
PFetchGuardNoInFlight(s, en) == ~(~s.isMounted \/ ~en)

\* fetchData's first line: the condition under which it goes on.
PFetchGuard(s, en) == ~(s.requestInProgress \/ ~s.isMounted \/ ~en)

\* fetchData up to the await, not handing the sort on to the producer.
PFetchDataNoSort(s, en, currentPagination, currentSort, currentFilters) ==
    IF ~PFetchGuard(s, en) THEN s
    ELSE [s EXCEPT !.requestInProgress = TRUE,
                   !.isLoading = TRUE,
                   !.error = Null,
                   !.inflight = Append(@, [pagination |-> currentPagination,
                                           sort |-> Undefined,
                                           filters |-> currentFilters])]

\* fetchData up to the await: `en` is the `enabled` its closure captured.
PFetchData(s, en, currentPagination, currentSort, currentFilters) ==
    IF ~PFetchGuard(s, en) THEN s
    ELSE [s EXCEPT !.requestInProgress = TRUE,
                   !.isLoading = TRUE,
                   !.error = Null,
                   !.inflight = Append(@, [pagination |-> currentPagination,
                                           sort |-> currentSort,
                                           filters |-> currentFilters])]

\* The success path without the write to the external store.
PResolveNoStore(s, result) ==
    LET a == IF s.isMounted THEN [s EXCEPT !.data = result] ELSE s
        b == [a EXCEPT !.requestInProgress = FALSE]
    IN  IF b.isMounted THEN [b EXCEPT !.isLoading = FALSE] ELSE b

\* fetchData from the await on, for the request resolved with `result`.
PResolve(s, result) ==
    LET a == IF s.isMounted
             THEN [s EXCEPT !.data = result,
                            !.store = result,
                            !.setStateCalled = TRUE]
             ELSE s
        b == [a EXCEPT !.requestInProgress = FALSE]
    IN  IF b.isMounted THEN [b EXCEPT !.isLoading = FALSE] ELSE b

\* The rejection path leaving the in-flight flag set.
PRejectKeepsGuard(s, failure) ==
    LET a == IF s.isMounted THEN [s EXCEPT !.error = NewError(failure)] ELSE s
    IN  IF a.isMounted THEN [a EXCEPT !.isLoading = FALSE] ELSE a

\* The rejection path putting data back to the empty shape.
PRejectClearsData(s, failure) ==
    LET a == IF s.isMounted
             THEN [s EXCEPT !.error = NewError(failure), !.data = PEmptyResult]
             ELSE s
        b == [a EXCEPT !.requestInProgress = FALSE]
    IN  IF b.isMounted THEN [b EXCEPT !.isLoading = FALSE] ELSE b

\* The rejection path without the `finally` update of isLoading.
PRejectKeepsLoading(s, failure) ==
    LET a == IF s.isMounted THEN [s EXCEPT !.error = NewError(failure)] ELSE s
    IN  [a EXCEPT !.requestInProgress = FALSE]

\* fetchData from the await on, for the request rejected with `failure`.
PReject(s, failure) ==
    LET a == IF s.isMounted THEN [s EXCEPT !.error = NewError(failure)] ELSE s
        b == [a EXCEPT !.requestInProgress = FALSE]
    IN  IF b.isMounted THEN [b EXCEPT !.isLoading = FALSE] ELSE b

\* A debouncer that hands the value on at once.
DebounceImmediate(s) ==
    [s EXCEPT !.debouncedFilters = s.filters, !.timer = NoTimer]

\* useDebounce: the effect's cleanup (clearTimeout) and body (setTimeout),
\* run when `value` changed.  The timer counts the time left down to 0.
DebounceEffect(s) == [s EXCEPT !.timer = s.debounceTime]

\* useDebounce: the effect's cleanup at teardown.
DebounceCleanup(s) == [s EXCEPT !.timer = NoTimer]

\* useDebounce: the timer's callback, setDebouncedValue(value).
DebounceFire(s) ==
    [s EXCEPT !.debouncedFilters = s.filters, !.timer = NoTimer]

\* "Handle cleanup and initial data fetch", deps [enabled].
PMountCleanup(s) == [s EXCEPT !.isMounted = FALSE]

\* The mount effect fetching with the filters not yet debounced.
PMountEffectUndebounced(r, s) ==
    LET a == [s EXCEPT !.isMounted = TRUE, !.requestInProgress = FALSE]
    IN  IF r.enabled
        THEN PFetchData(a, r.enabled, r.pagination, r.sort, r.filters)
        ELSE [a EXCEPT !.isLoading = FALSE]

\* The mount effect's body.
PMountEffect(r, s) ==
    LET a == [s EXCEPT !.isMounted = TRUE, !.requestInProgress = FALSE]
    IN  IF r.enabled
        THEN PFetchData(a, r.enabled, r.pagination, r.sort, r.debouncedFilters)
        ELSE [a EXCEPT !.isLoading = FALSE]

\* The updater putting back the initial pagination.
PResetPageInitial(prev) == PInitialPagination

\* setPagination((prev) => ({ ...prev, page: 1 }))
PResetPage(prev) == [prev EXCEPT !.page = 1]

\* "Reset pagination when filters change".
PFilterEffect(r, s) ==
    IF ~r.enabled THEN s
    ELSE LET filtersChanged == s.prevFiltersRef # r.debouncedFilters
             a == [s EXCEPT !.prevFiltersRef = r.debouncedFilters]
             currentPage == IF "page" \in DOMAIN r.pagination
                            THEN r.pagination.page ELSE 1
         IN  IF filtersChanged /\ currentPage # 1
             THEN [a EXCEPT !.pagination = PResetPage(@)]
             ELSE IF filtersChanged
                     \/ (~Truthy(a.prevFiltersRef) /\ Truthy(r.debouncedFilters))
                  THEN PFetchData(a, r.enabled, r.pagination, r.sort,
                                  r.debouncedFilters)
                  ELSE a

\* The effect fetching with the values of the previous render.
PPaginationSortEffectStale(r, s) ==
    IF ~r.enabled THEN s
    ELSE LET paginationChanged == s.prevPaginationRef # r.pagination
             sortChanged == s.prevSortRef # r.sort
             a == [s EXCEPT !.prevPaginationRef = r.pagination,
                            !.prevSortRef = r.sort]
         IN  IF paginationChanged \/ sortChanged
             THEN PFetchData(a, r.enabled, s.prevPaginationRef, s.prevSortRef,
                             r.debouncedFilters)
             ELSE a

\* "Fetch data when pagination or sort changes".
PPaginationSortEffect(r, s) ==
    IF ~r.enabled THEN s
    ELSE LET paginationChanged == s.prevPaginationRef # r.pagination
             sortChanged == s.prevSortRef # r.sort
             a == [s EXCEPT !.prevPaginationRef = r.pagination,
                            !.prevSortRef = r.sort]
         IN  IF paginationChanged \/ sortChanged
             THEN PFetchData(a, r.enabled, r.pagination, r.sort,
                             r.debouncedFilters)
             ELSE a

\* The enabled effect clearing the error when disabled.
PEnabledEffectClearsError(r, s) ==
    IF r.enabled
    THEN PFetchData(s, r.enabled, r.pagination, r.sort, r.debouncedFilters)
    ELSE [s EXCEPT !.isLoading = FALSE, !.error = Null]

\* "Effect to handle when enabled changes from false to true".
PEnabledEffect(r, s) ==
    IF r.enabled
    THEN PFetchData(s, r.enabled, r.pagination, r.sort, r.debouncedFilters)
    ELSE [s EXCEPT !.isLoading = FALSE]

\* The dependencies shared by the filter, pagination/sort and enabled effects.
PFetchDeps(r) == <<r.debouncedFilters, r.pagination, r.sort, r.enabled>>

\* Commit the render of state `s` after the render `old`: cleanups of the
\* effects that re-run, then their bodies in declaration order; repeated
\* while an effect changed a dependency.
RECURSIVE PCommit(_, _)
PCommit(old, s) ==
    LET r == PRender(s)
        mount == old = NoRender
        a == IF mount \/ r.filters # old.filters THEN DebounceEffect(s) ELSE s
        b == IF mount THEN PMountEffect(r, a)
             ELSE IF r.enabled # old.enabled
                  THEN PMountEffect(r, PMountCleanup(a))
                  ELSE a
        fetchDepsChanged == mount \/ PFetchDeps(r) # PFetchDeps(old)
        c == IF fetchDepsChanged THEN PFilterEffect(r, b) ELSE b
        d == IF fetchDepsChanged THEN PPaginationSortEffect(r, c) ELSE c
        e == IF fetchDepsChanged THEN PEnabledEffect(r, d) ELSE d
    IN  IF r = old THEN s ELSE PCommit(r, e)

\* An event on a mounted component: the update `t` of state `s`, then the
\* commits.
PEvent(s, t) == PCommit(PRender(s), t)

PInit(en, dt) == PCommit(NoRender, PFirstRender(en, dt))

\* refresh() passing the filters not yet debounced.
PRefreshOpCurrentFilters(s) ==
    PFetchData(s, s.enabled, s.pagination, s.sort, s.filters)

\* refresh(): the callback of the last committed render.
PRefreshOp(s) ==
    PFetchData(s, s.enabled, s.pagination, s.sort, s.debouncedFilters)

\* ------------------------------------------------ usePaginatedQuery events
PActive == hook = "usePaginatedQuery"

PBounded(s) == Len(s.inflight) <= MaxInFlight

\* setFilters(v); on an unmounted component React drops the update.
PSetFilters(v) ==
    /\ PActive
    /\ pq' = IF pq.alive
             THEN PEvent(Now(pq), [Now(pq) EXCEPT !.filters = v])
             ELSE Now(pq)
    /\ PBounded(pq')
    /\ UNCHANGED <<hook, q, iq, db>>

\* setPagination(v)
PSetPagination(v) ==
    /\ PActive
    /\ pq' = IF pq.alive
             THEN PEvent(Now(pq), [Now(pq) EXCEPT !.pagination = v])
             ELSE Now(pq)
    /\ PBounded(pq')
    /\ UNCHANGED <<hook, q, iq, db>>

\* setSort(v)
PSetSort(v) ==
    /\ PActive
    /\ pq' = IF pq.alive
             THEN PEvent(Now(pq), [Now(pq) EXCEPT !.sort = v])
             ELSE Now(pq)
    /\ PBounded(pq')
    /\ UNCHANGED <<hook, q, iq, db>>

\* refresh()
PRefresh ==
    /\ PActive
    /\ pq' = PRefreshOp(Now(pq))
    /\ PBounded(pq')
    /\ UNCHANGED <<hook, q, iq, db>>

\* The consumer re-renders the hook with the other value of `enabled`.
PSetEnabled ==
    /\ PActive
    /\ pq.alive
    /\ pq' = PEvent(Now(pq), [Now(pq) EXCEPT !.enabled = ~@])
    /\ PBounded(pq')
    /\ UNCHANGED <<hook, q, iq, db>>

\* One unit of time passes for the pending debounce timer.
PTick ==
    /\ PActive
    /\ pq.timer > 0
    /\ pq' = [Now(pq) EXCEPT !.timer = @ - 1]
    /\ UNCHANGED <<hook, q, iq, db>>

\* The debounce timer expires.
PTimerFire ==
    /\ PActive
    /\ pq.timer = 0
    /\ pq' = PEvent(Now(pq), DebounceFire(Now(pq)))
    /\ PBounded(pq')
    /\ UNCHANGED <<hook, q, iq, db>>

\* The producer's promise of the i-th outstanding invocation resolves.
PSettleOk(i) ==
    /\ PActive
    /\ i \in 1..Len(pq.inflight)
    /\ \E result \in PResults(pq.inflight[i]) :
          pq' = PResolve([Now(pq) EXCEPT !.inflight = RemoveAt(@, i)], result)
    /\ UNCHANGED <<hook, q, iq, db>>

\* The producer's promise of the i-th outstanding invocation rejects.
PSettleFail(i) ==
    /\ PActive
    /\ i \in 1..Len(pq.inflight)
    /\ \E failure \in Failures :
          pq' = PReject([Now(pq) EXCEPT !.inflight = RemoveAt(@, i)], failure)
    /\ UNCHANGED <<hook, q, iq, db>>

\* The component unmounts: every effect's cleanup runs.
PUnmount ==
    /\ PActive
    /\ pq.alive
    /\ pq' = [DebounceCleanup(PMountCleanup(Now(pq))) EXCEPT !.alive = FALSE]
    /\ UNCHANGED <<hook, q, iq, db>>

PNext ==
    \/ \E v \in FilterVals : PSetFilters(v)
    \/ \E v \in PaginationVals : PSetPagination(v)
    \/ \E v \in SortVals : PSetSort(v)
    \/ PRefresh
    \/ PSetEnabled
    \/ PTick
    \/ PTimerFire
    \/ \E i \in 1..MaxInFlight : PSettleOk(i)
    \/ \E i \in 1..MaxInFlight : PSettleFail(i)
    \/ PUnmount

\* ======================================================= useInfiniteQuery
IEmptyMeta ==
    [page |-> 1, limit |-> DefaultPageSize, hasNextPage |-> FALSE,
     hasPrevPage |-> FALSE]

IEmptyResult == [data |-> <<>>, meta |-> IEmptyMeta, allData |-> <<>>]

\* What the producer may resolve with for a request: the items of the page
\* asked for, out of at most MaxPage pages.
IResults(req) ==
    { [data |-> <<req.page>>,
       meta |-> [page |-> req.page, limit |-> DefaultPageSize,
                 hasNextPage |-> h, hasPrevPage |-> req.page > 1]] :
      h \in IF req.page < MaxPage THEN BOOLEAN ELSE {FALSE} }

\* The hook's state right after the first render, before any effect ran.
IFirstRender(en, dt) ==
    [data |-> IEmptyResult,
     error |-> Null,
     isLoading |-> FALSE,
     isLoadingMore |-> FALSE,
     filters |-> Undefined,
     sort |-> Undefined,
     isMounted |-> TRUE,
     requestInProgress |-> FALSE,
     currentPageRef |-> 1,
     debouncedFilters |-> Undefined,
     timer |-> NoTimer,
     prevFiltersRef |-> Undefined,
     prevSortRef |-> Undefined,
     enabled |-> en,
     debounceTime |-> dt,
     alive |-> TRUE,
     inflight |-> <<>>,
     store |-> Undefined,
     setStateCalled |-> FALSE]

\* The values the closures of one render capture.
IRender(s) ==
    [filters |-> s.filters,
     debouncedFilters |-> s.debouncedFilters,
     sort |-> s.sort,
     enabled |-> s.enabled]

\* The guard without the `enabled` gate.
IFetchGuardIgnoresEnabled(s, en) == ~(s.requestInProgress \/ ~s.isMounted)

\* fetchData's first line: the condition under which it goes on.
IFetchGuard(s, en) == ~(s.requestInProgress \/ ~s.isMounted \/ ~en)

\* fetchData without setError(null).
IFetchDataKeepsError(s, en, page, currentSort, currentFilters, append) ==
    IF ~IFetchGuard(s, en) THEN s
    ELSE [s EXCEPT !.requestInProgress = TRUE,
                   !.isLoadingMore = IF append THEN TRUE ELSE @,
                   !.isLoading = IF append THEN @ ELSE TRUE,
                   !.inflight = Append(@, [page |-> page,
                                           sort |-> currentSort,
                                           filters |-> currentFilters,
                                           append |-> append])]

\* fetchData up to the await: `en` is the `enabled` its closure captured.
IFetchData(s, en, page, currentSort, currentFilters, append) ==
    IF ~IFetchGuard(s, en) THEN s
    ELSE [s EXCEPT !.requestInProgress = TRUE,
                   !.isLoadingMore = IF append THEN TRUE ELSE @,
                   !.isLoading = IF append THEN @ ELSE TRUE,
                   !.error = Null,
                   !.inflight = Append(@, [page |-> page,
                                           sort |-> currentSort,
                                           filters |-> currentFilters,
                                           append |-> append])]

\* The updater replacing allData whatever `append` is.
IInfiniteResultReplace(prevData, result, append) ==
    [data |-> result.data, meta |-> result.meta, allData |-> result.data]

\* The value setData's updater computes from the previous data.
IInfiniteResult(prevData, result, append) ==
    [data |-> result.data,
     meta |-> result.meta,
     allData |-> IF append THEN prevData.allData \o result.data
                 ELSE result.data]

\* The continuation without the liveness check.
IResolveUnchecked(s, req, result) ==
    [s EXCEPT !.data = IInfiniteResult(@, result, req.append),
              !.store = IInfiniteResult(s.data, result, req.append),
              !.setStateCalled = TRUE,
              !.currentPageRef = req.page,
              !.requestInProgress = FALSE,
              !.isLoading = FALSE,
              !.isLoadingMore = FALSE]

\* fetchData from the await on, for request `req` resolved with `result`.
IResolve(s, req, result) ==
    LET a == IF s.isMounted
             THEN [s EXCEPT !.data = IInfiniteResult(@, result, req.append),
                            !.store = IInfiniteResult(s.data, result, req.append),
                            !.setStateCalled = TRUE,
                            !.currentPageRef = req.page]
             ELSE s
        b == [a EXCEPT !.requestInProgress = FALSE]
    IN  IF b.isMounted
        THEN [b EXCEPT !.isLoading = FALSE, !.isLoadingMore = FALSE]
        ELSE b

\* The rejection path with a `finally` but no `catch`.
IRejectUncaught(s, failure) ==
    LET b == [s EXCEPT !.requestInProgress = FALSE]
    IN  IF b.isMounted
        THEN [b EXCEPT !.isLoading = FALSE, !.isLoadingMore = FALSE]
        ELSE b

\* The catch block also putting back the empty result.
IRejectClearsData(s, failure) ==
    LET a == IF s.isMounted
             THEN [s EXCEPT !.error = NewError(failure), !.data = IEmptyResult]
             ELSE s
        b == [a EXCEPT !.requestInProgress = FALSE]
    IN  IF b.isMounted
        THEN [b EXCEPT !.isLoading = FALSE, !.isLoadingMore = FALSE]
        ELSE b

\* fetchData from the await on, for a request rejected with `failure`.
IReject(s, failure) ==
    LET a == IF s.isMounted THEN [s EXCEPT !.error = NewError(failure)] ELSE s
        b == [a EXCEPT !.requestInProgress = FALSE]
    IN  IF b.isMounted
        THEN [b EXCEPT !.isLoading = FALSE, !.isLoadingMore = FALSE]
        ELSE b

\* "Handle cleanup and initial data fetch", deps [enabled].
IMountCleanup(s) == [s EXCEPT !.isMounted = FALSE]

IMountEffect(r, s) ==
    LET a == [s EXCEPT !.isMounted = TRUE, !.requestInProgress = FALSE,
                       !.currentPageRef = 1]
    IN  IF r.enabled
        THEN IFetchData(a, r.enabled, 1, r.sort, r.debouncedFilters, FALSE)
        ELSE [a EXCEPT !.isLoading = FALSE]

\* "Reset and refetch when filters or sort change".
IFilterSortEffect(r, s) ==
    IF ~r.enabled THEN s
    ELSE LET filtersChanged == s.prevFiltersRef # r.debouncedFilters
             sortChanged == s.prevSortRef # r.sort
             a == [s EXCEPT !.prevFiltersRef = r.debouncedFilters,
                            !.prevSortRef = r.sort]
         IN  IF filtersChanged \/ sortChanged
             THEN IFetchData([a EXCEPT !.currentPageRef = 1], r.enabled, 1,
                             r.sort, r.debouncedFilters, FALSE)
             ELSE a

\* The enabled effect clearing isLoading only.
IEnabledEffectLoadingOnly(r, s) ==
    IF r.enabled
    THEN IFetchData([s EXCEPT !.currentPageRef = 1], r.enabled, 1, r.sort,
                    r.debouncedFilters, FALSE)
    ELSE [s EXCEPT !.isLoading = FALSE]

\* "Effect to handle when enabled changes from false to true".
IEnabledEffect(r, s) ==
    IF r.enabled
    THEN IFetchData([s EXCEPT !.currentPageRef = 1], r.enabled, 1, r.sort,
                    r.debouncedFilters, FALSE)
    ELSE [s EXCEPT !.isLoading = FALSE, !.isLoadingMore = FALSE]

\* The dependencies shared by the filter/sort and enabled effects.
IFetchDeps(r) == <<r.debouncedFilters, r.sort, r.enabled>>

\* Commit the render of state `s` after the render `old`.
RECURSIVE ICommit(_, _)
ICommit(old, s) ==
    LET r == IRender(s)
        mount == old = NoRender
        a == IF mount \/ r.filters # old.filters THEN DebounceEffect(s) ELSE s
        b == IF mount THEN IMountEffect(r, a)
             ELSE IF r.enabled # old.enabled
                  THEN IMountEffect(r, IMountCleanup(a))
                  ELSE a
        fetchDepsChanged == mount \/ IFetchDeps(r) # IFetchDeps(old)
        c == IF fetchDepsChanged THEN IFilterSortEffect(r, b) ELSE b
        d == IF fetchDepsChanged THEN IEnabledEffect(r, c) ELSE c
    IN  IF r = old THEN s ELSE ICommit(r, d)

\* An event on a mounted component: the update `t` of state `s`, then the
\* commits.
IEvent(s, t) == ICommit(IRender(s), t)

IInit(en, dt) == ICommit(NoRender, IFirstRender(en, dt))

\* loadMore(): the callback of the last committed render.
ILoadMoreOp(s) ==
    IF ~s.data.meta.hasNextPage \/ s.requestInProgress THEN s
    ELSE IFetchData(s, s.enabled, s.currentPageRef + 1, s.sort,
                    s.debouncedFilters, TRUE)

\* refresh() asking fetchData to append.
IRefreshOpAppends(s) ==
    IFetchData([s EXCEPT !.currentPageRef = 1], s.enabled, 1, s.sort,
               s.debouncedFilters, TRUE)

\* refresh()
IRefreshOp(s) ==
    IFetchData([s EXCEPT !.currentPageRef = 1], s.enabled, 1, s.sort,
               s.debouncedFilters, FALSE)

\* reset() without setError(null).
IResetOpKeepsError(s) ==
    LET a == [s EXCEPT !.currentPageRef = 1]
        b == IF s.alive THEN [a EXCEPT !.data = IEmptyResult] ELSE a
    IN  IF s.enabled
        THEN IFetchData(b, s.enabled, 1, s.sort, s.debouncedFilters, FALSE)
        ELSE b

\* reset(); on an unmounted component React drops setData and setError.
IResetOp(s) ==
    LET a == [s EXCEPT !.currentPageRef = 1]
        b == IF s.alive THEN [a EXCEPT !.data = IEmptyResult, !.error = Null]
             ELSE a
    IN  IF s.enabled
        THEN IFetchData(b, s.enabled, 1, s.sort, s.debouncedFilters, FALSE)
        ELSE b

\* ------------------------------------------------- useInfiniteQuery events
IActive == hook = "useInfiniteQuery"

IBounded(s) ==
    /\ Len(s.inflight) <= MaxInFlight
    /\ Len(s.data.allData) <= MaxPage + 1

\* setFilters(v); on an unmounted component React drops the update.
ISetFilters(v) ==
    /\ IActive
    /\ iq' = IF iq.alive
             THEN IEvent(Now(iq), [Now(iq) EXCEPT !.filters = v])
             ELSE Now(iq)
    /\ IBounded(iq')
    /\ UNCHANGED <<hook, q, pq, db>>

\* setSort(v)
ISetSort(v) ==
    /\ IActive
    /\ iq' = IF iq.alive
             THEN IEvent(Now(iq), [Now(iq) EXCEPT !.sort = v])
             ELSE Now(iq)
    /\ IBounded(iq')
    /\ UNCHANGED <<hook, q, pq, db>>

\* loadMore()
ILoadMore ==
    /\ IActive
    /\ iq' = ILoadMoreOp(Now(iq))
    /\ IBounded(iq')
    /\ UNCHANGED <<hook, q, pq, db>>

\* refresh()
IRefresh ==
    /\ IActive
    /\ iq' = IRefreshOp(Now(iq))
    /\ IBounded(iq')
    /\ UNCHANGED <<hook, q, pq, db>>

\* reset()
IReset ==
    /\ IActive
    /\ iq' = IResetOp(Now(iq))
    /\ IBounded(iq')
    /\ UNCHANGED <<hook, q, pq, db>>

\* The consumer re-renders the hook with the other value of `enabled`.
ISetEnabled ==
    /\ IActive
    /\ iq.alive
    /\ iq' = IEvent(Now(iq), [Now(iq) EXCEPT !.enabled = ~@])
    /\ IBounded(iq')
    /\ UNCHANGED <<hook, q, pq, db>>

\* One unit of time passes for the pending debounce timer.
ITick ==
    /\ IActive
    /\ iq.timer > 0
    /\ iq' = [Now(iq) EXCEPT !.timer = @ - 1]
    /\ UNCHANGED <<hook, q, pq, db>>

\* The debounce timer expires.
ITimerFire ==
    /\ IActive
    /\ iq.timer = 0
    /\ iq' = IEvent(Now(iq), DebounceFire(Now(iq)))
    /\ IBounded(iq')
    /\ UNCHANGED <<hook, q, pq, db>>

\* The producer's promise of the i-th outstanding invocation resolves.
ISettleOk(i) ==
    /\ IActive
    /\ i \in 1..Len(iq.inflight)
    /\ \E result \in IResults(iq.inflight[i]) :
          iq' = IResolve([Now(iq) EXCEPT !.inflight = RemoveAt(@, i)],
                         iq.inflight[i], result)
    /\ IBounded(iq')
    /\ UNCHANGED <<hook, q, pq, db>>

\* The producer's promise of the i-th outstanding invocation rejects.
ISettleFail(i) ==
    /\ IActive
    /\ i \in 1..Len(iq.inflight)
    /\ \E failure \in Failures :
          iq' = IReject([Now(iq) EXCEPT !.inflight = RemoveAt(@, i)], failure)
    /\ UNCHANGED <<hook, q, pq, db>>

\* The component unmounts: every effect's cleanup runs.
IUnmount ==
    /\ IActive
    /\ iq.alive
    /\ iq' = [DebounceCleanup(IMountCleanup(Now(iq))) EXCEPT !.alive = FALSE]
    /\ UNCHANGED <<hook, q, pq, db>>

INext ==
    \/ \E v \in FilterVals : ISetFilters(v)
    \/ \E v \in SortVals : ISetSort(v)
    \/ ILoadMore
    \/ IRefresh
    \/ IReset
    \/ ISetEnabled
    \/ ITick
    \/ ITimerFire
    \/ \E i \in 1..MaxInFlight : ISettleOk(i)
    \/ \E i \in 1..MaxInFlight : ISettleFail(i)
    \/ IUnmount

\* ============================================================ useDebounce
\* The hook on its own, in a component that passes it `value` and `delay`.
\* `db` holds the inputs of the last render, the state `debouncedValue`, the
\* timers set and not yet fired or cleared (`left` is the time until a timer
\* is due, `value` the value its callback captured), `own` (the handle kept by
\* the last effect's cleanup still names a pending timer, the last one set),
\* and two clocks of the environment: `quiet`, the time since `value` last
\* changed, and `burst`, the number of changes of `value` since a timer last
\* fired (counted up to MaxBurst).
DebounceVals == 0..MaxInput
DebounceDelays == 1..MaxDebounceDelay

\* The state right after the first render, before the effect ran.
UseDebounceFirstRender(value, delay) ==
    [value |-> value,
     delay |-> delay,
     debouncedValue |-> value,
     timers |-> <<>>,
     own |-> FALSE,
     alive |-> TRUE,
     quiet |-> 0,
     burst |-> 0]

\* The effect setting a timer that is due at once.
UseDebounceEffectNoDelay(s) ==
    [s EXCEPT !.timers = Append(@, [value |-> s.value, left |-> 0]),
              !.own = TRUE]

\* The effect's body: setTimeout(() => setDebouncedValue(value), delay).
UseDebounceEffect(s) ==
    [s EXCEPT !.timers = Append(@, [value |-> s.value, left |-> s.delay]),
              !.own = TRUE]

\* The effect without a cleanup.
UseDebounceCleanupNone(s) == s

\* The effect's cleanup: clearTimeout(timer).
UseDebounceCleanup(s) ==
    IF s.own
    THEN [s EXCEPT !.timers = SubSeq(@, 1, Len(@) - 1), !.own = FALSE]
    ELSE s

\* A timer callback that does not call setDebouncedValue.
UseDebounceFireDropped(s, i) ==
    [s EXCEPT !.timers = RemoveAt(@, i),
              !.own = IF i = Len(s.timers) THEN FALSE ELSE @,
              !.burst = 0]

\* The callback of the i-th pending timer: setDebouncedValue(value); React
\* drops the update on an unmounted component.
UseDebounceFire(s, i) ==
    [s EXCEPT !.debouncedValue = IF s.alive THEN s.timers[i].value ELSE @,
              !.timers = RemoveAt(@, i),
              !.own = IF i = Len(s.timers) THEN FALSE ELSE @,
              !.burst = 0]

\* A render with other inputs: the deps [value, delay] changed, so the
\* cleanup of the last effect runs, then the effect.
UseDebounceRender(s, value, delay) ==
    UseDebounceEffect(UseDebounceCleanup(
        [s EXCEPT !.value = value,
                  !.delay = delay,
                  !.quiet = IF value # s.value THEN 0 ELSE @,
                  !.burst = IF value # s.value /\ @ < MaxBurst
                            THEN @ + 1 ELSE @]))

DInit(value, delay) == UseDebounceEffect(UseDebounceFirstRender(value, delay))

\* ------------------------------------------------------ useDebounce events
DActive == hook = "useDebounce"

\* The model follows at most MaxTimers pending timers.
DBounded(s) == Len(s.timers) <= MaxTimers

\* The consumer renders the hook with another value.
DSetValue(v) ==
    /\ DActive
    /\ db.alive
    /\ v # db.value
    /\ db' = UseDebounceRender(db, v, db.delay)
    /\ DBounded(db')
    /\ UNCHANGED <<hook, q, pq, iq>>

\* The consumer renders the hook with another delay.
DSetDelay(d) ==
    /\ DActive
    /\ db.alive
    /\ d # db.delay
    /\ db' = UseDebounceRender(db, db.value, d)
    /\ DBounded(db')
    /\ UNCHANGED <<hook, q, pq, iq>>

\* One unit of time passes; a due timer may fire late, never early.
DTick ==
    /\ DActive
    /\ \/ \E i \in 1..Len(db.timers) : db.timers[i].left > 0
       \/ db.quiet < MaxDebounceDelay
    /\ db' = [db EXCEPT
                !.timers = [i \in 1..Len(@) |->
                              [@[i] EXCEPT !.left = IF @ > 0 THEN @ - 1 ELSE 0]],
                !.quiet = IF @ < MaxDebounceDelay THEN @ + 1 ELSE @]
    /\ UNCHANGED <<hook, q, pq, iq>>

\* A due timer fires.
DTimerFire(i) ==
    /\ DActive
    /\ i \in 1..Len(db.timers)
    /\ db.timers[i].left = 0
    /\ db' = UseDebounceFire(db, i)
    /\ UNCHANGED <<hook, q, pq, iq>>

\* The component unmounts: the effect's cleanup runs.
DUnmount ==
    /\ DActive
    /\ db.alive
    /\ db' = UseDebounceCleanup([db EXCEPT !.alive = FALSE])
    /\ UNCHANGED <<hook, q, pq, iq>>

DNext ==
    \/ \E v \in DebounceVals : DSetValue(v)
    \/ \E d \in DebounceDelays : DSetDelay(d)
    \/ DTick
    \/ \E i \in 1..MaxTimers : DTimerFire(i)
    \/ DUnmount

\* ------------------------------------------------------------ specification
Init ==
    /\ hook \in Hooks
    /\ q \in IF hook = "useQuery"
             THEN { QInit(im, c) : im \in BOOLEAN, c \in QCached }
             ELSE { QInit(FALSE, Undefined) }
    /\ pq \in IF hook = "usePaginatedQuery"
              THEN { PInit(en, dt) : en \in BOOLEAN, dt \in 1..MaxDelay }
              ELSE { PInit(FALSE, 1) }
    /\ iq \in IF hook = "useInfiniteQuery"
              THEN { IInit(en, dt) : en \in BOOLEAN, dt \in 1..MaxDelay }
              ELSE { IInit(FALSE, 1) }
    /\ db \in IF hook = "useDebounce"
              THEN { DInit(v, d) : v \in DebounceVals, d \in DebounceDelays }
              ELSE { DInit(0, 1) }

Next == QNext \/ PNext \/ INext \/ DNext

Spec == Init /\ [][Next]_vars

\* useDebounce alone, with time passing and due timers firing: the browser's
\* event loop runs every due timer callback.
InitDebounce == Init /\ hook = "useDebounce"

SpecDebounce ==
    /\ InitDebounce
    /\ [][DNext]_vars
    /\ WF_vars(DTick)
    /\ WF_vars(\E i \in 1..MaxTimers : DTimerFire(i))

\* usePaginatedQuery alone, with the setters given objects that carry their
\* identity (`ref`): two objects of equal content are still two objects, and
\* the hook compares with !== and Object.is.
ObjRefs == 1..MaxRef
FilterObjs == {Undefined} \cup [val : 1..MaxVal, ref : ObjRefs]
SortObjs == {Undefined} \cup [val : 1..MaxVal, ref : ObjRefs]
PaginationObjs == [page : 1..MaxPage, limit : {DefaultLimit}, ref : ObjRefs]

\* The content of an object, without its identity.
Content(v) == [f \in (DOMAIN v) \ {"ref"} |-> v[f]]

InitIdentity == Init /\ hook = "usePaginatedQuery"

\* The setters, the debounce timer and the producer's answers; `enabled`
\* stays as it was at mount and the component stays mounted.
PNextIdentity ==
    \/ \E v \in FilterObjs : PSetFilters(v)
    \/ \E v \in PaginationObjs : PSetPagination(v)
    \/ \E v \in SortObjs : PSetSort(v)
    \/ PTick
    \/ PTimerFire
    \/ \E i \in 1..MaxInFlight : PSettleOk(i)
    \/ \E i \in 1..MaxInFlight : PSettleFail(i)

SpecIdentity == InitIdentity /\ [][PNextIdentity]_vars

\* usePaginatedQuery alone, with paginations of either limit, with and
\* without a `page` field.
PaginationShapes ==
    [page : 1..MaxPage, limit : {DefaultLimit, 2 * DefaultLimit}]
        \cup [limit : {DefaultLimit, 2 * DefaultLimit}]

PNextShapes ==
    \/ \E v \in FilterVals : PSetFilters(v)
    \/ \E v \in PaginationShapes : PSetPagination(v)
    \/ \E v \in SortVals : PSetSort(v)
    \/ PTick
    \/ PTimerFire
    \/ \E i \in 1..MaxInFlight : PSettleOk(i)
    \/ \E i \in 1..MaxInFlight : PSettleFail(i)

SpecShapes == InitIdentity /\ [][PNextShapes]_vars

\* useInfiniteQuery alone, mounted with `enabled` true and left so, against a
\* producer with MaxPageDeep pages.
IResultsDeep(req) ==
    { [data |-> <<req.page>>,
       meta |-> [page |-> req.page, limit |-> DefaultPageSize,
                 hasNextPage |-> h, hasPrevPage |-> req.page > 1]] :
      h \in IF req.page < MaxPageDeep THEN BOOLEAN ELSE {FALSE} }

\* The producer's promise of the i-th outstanding invocation resolves.
ISettleOkDeep(i) ==
    /\ IActive
    /\ i \in 1..Len(iq.inflight)
    /\ \E result \in IResultsDeep(iq.inflight[i]) :
          iq' = IResolve([Now(iq) EXCEPT !.inflight = RemoveAt(@, i)],
                         iq.inflight[i], result)
    /\ Len(iq'.data.allData) <= MaxPageDeep
    /\ UNCHANGED <<hook, q, pq, db>>

InitPages == Init /\ hook = "useInfiniteQuery" /\ iq.enabled

INextPages ==
    \/ ILoadMore
    \/ IRefresh
    \/ IReset
    \/ \E i \in 1..MaxInFlight : ISettleOkDeep(i)
    \/ \E i \in 1..MaxInFlight : ISettleFail(i)

SpecPages == InitPages /\ [][INextPages]_vars

\* ================================================================== claims
\* A producer invocation settled in this step.
QSettled == Len(q'.inflight) < Len(q.inflight)
PSettled == Len(pq'.inflight) < Len(pq.inflight)
ISettled == Len(iq'.inflight) < Len(iq.inflight)

\* The state a consumer can see, and the page cursor.
QVisible(s) == <<s.data, s.error, s.isLoading, s.store>>
PVisible(s) == <<s.data, s.error, s.isLoading, s.store>>
IVisible(s) ==
    <<s.data, s.error, s.isLoading, s.isLoadingMore, s.currentPageRef, s.store>>

\* C1: in the paginated and the infinite controller at most one producer
\* invocation is outstanding at any instant.
C1_AtMostOneOutstanding ==
    /\ Len(pq.inflight) <= 1
    /\ Len(iq.inflight) <= 1

\* C2: in the single-fetch controller refresh() while an invocation is
\* outstanding is a no-op: no second invocation, no state change.
C2_RefreshWhileOutstandingIsNoOp ==
    [][(QRefresh /\ Len(q.inflight) > 0) =>
          /\ q'.inflight = q.inflight
          /\ QVisible(q') = QVisible(q)
          /\ q'.requestInProgress = q.requestInProgress
          /\ ~q'.setStateCalled]_vars

\* A mounted single-fetch controller with its one invocation outstanding and
\* the in-flight flag set: the state refresh() is called in, and leaves as
\* it is.
C2_Witness ==
    /\ hook = "useQuery"
    /\ q.alive
    /\ Len(q.inflight) = 1
    /\ q.requestInProgress
    /\ q.isLoading
    /\ ENABLED QRefresh

\* C3: once the consumer has unmounted, the settling of an invocation changes
\* none of data, error, isLoading, isLoadingMore and the page cursor, and
\* does not call the external setState.
C3_SettleAfterUnmountDiscarded ==
    [][/\ (~q.alive /\ QSettled) =>
             (QVisible(q') = QVisible(q) /\ ~q'.setStateCalled)
       /\ (~pq.alive /\ PSettled) =>
             (PVisible(pq') = PVisible(pq) /\ ~pq'.setStateCalled)
       /\ (~iq.alive /\ ISettled) =>
             (IVisible(iq') = IVisible(iq) /\ ~iq'.setStateCalled)]_vars

\* An unmounted infinite controller whose loadMore() invocation has settled:
\* nothing is outstanding and isLoadingMore was left as the unmount found it.
C3_Witness ==
    /\ hook = "useInfiniteQuery"
    /\ ~iq.alive
    /\ iq.inflight = <<>>
    /\ iq.isLoadingMore
    /\ ~iq.requestInProgress

\* C4: a public operation called after the consumer has unmounted starts no
\* producer invocation and changes no controller state.
C4_OperationsAfterUnmountIgnored ==
    [][/\ (~q.alive /\ QRefresh) => q' = Now(q)
       /\ (~pq.alive /\ (\/ PRefresh
                         \/ \E v \in FilterVals : PSetFilters(v)
                         \/ \E v \in PaginationVals : PSetPagination(v)
                         \/ \E v \in SortVals : PSetSort(v)))
             => pq' = Now(pq)
       /\ (~iq.alive /\ (\/ IRefresh
                         \/ ILoadMore
                         \/ IReset
                         \/ \E v \in FilterVals : ISetFilters(v)
                         \/ \E v \in SortVals : ISetSort(v)))
             => iq' = Now(iq)]_vars
\* The invocations with a request of the given kind outstanding.
Outstanding(s) == Len(s.inflight) > 0
IOutstanding(s, append) ==
    \E i \in 1..Len(s.inflight) : s.inflight[i].append = append

\* C5 (as stated): while mounted, isLoading, or isLoadingMore for an append
\* fetch, is true if and only if a corresponding invocation is outstanding.
C5_LoadingIffOutstanding ==
    /\ q.alive => (q.isLoading <=> Outstanding(q))
    /\ pq.alive => (pq.isLoading <=> Outstanding(pq))
    /\ iq.alive => /\ iq.isLoading <=> IOutstanding(iq, FALSE)
                   /\ iq.isLoadingMore <=> IOutstanding(iq, TRUE)

\* C5 (amended): while mounted, isLoading, or isLoadingMore for an append
\* fetch, is true only if a corresponding invocation is outstanding, and a
\* loading flag is true exactly when the in-flight flag is set; in the
\* single-fetch controller isLoading is true if and only if an invocation is
\* outstanding.
C5_LoadingOnlyIfOutstanding ==
    /\ q.alive => (q.isLoading <=> Outstanding(q))
    /\ pq.alive => /\ pq.isLoading => Outstanding(pq)
                   /\ pq.isLoading <=> pq.requestInProgress
    /\ iq.alive => /\ iq.isLoading => IOutstanding(iq, FALSE)
                   /\ iq.isLoadingMore => IOutstanding(iq, TRUE)
                   /\ (iq.isLoading \/ iq.isLoadingMore) <=> iq.requestInProgress

\* A mounted paginated controller that was disabled while its invocation was
\* outstanding: the invocation is still outstanding, isLoading is false.
C5_Witness ==
    /\ hook = "usePaginatedQuery"
    /\ pq.alive
    /\ ~pq.enabled
    /\ Outstanding(pq)
    /\ ~pq.isLoading
    /\ ~pq.requestInProgress

\* The invocations the paginated controller made in this step.
PStarted ==
    IF Len(pq'.inflight) > Len(pq.inflight)
    THEN SubSeq(pq'.inflight, Len(pq.inflight) + 1, Len(pq'.inflight))
    ELSE <<>>

\* The invocations the infinite controller made in this step.
IStarted ==
    IF Len(iq'.inflight) > Len(iq.inflight)
    THEN SubSeq(iq'.inflight, Len(iq.inflight) + 1, Len(iq'.inflight))
    ELSE <<>>

\* The debounce timer expires with a filters value not yet handed on.
PFiltersDebounced == PTimerFire /\ pq.filters # pq.debouncedFilters

\* C6: with the page not 1, enabled and nothing in flight, a change of the
\* debounced filters resets pagination to page 1 and invokes the producer
\* exactly once, with page 1 and the new filters, never with the new filters
\* and the old page.
C6_FilterChangeResetsPageThenFetches ==
    [][(/\ PFiltersDebounced
        /\ pq.enabled
        /\ pq.pagination.page # 1
        /\ ~Outstanding(pq)) =>
          /\ pq'.pagination = PResetPage(pq.pagination)
          /\ PStarted = <<[pagination |-> PResetPage(pq.pagination),
                           sort |-> pq.sort,
                           filters |-> pq.filters]>>]_vars

\* C7 (as stated): with the page 1 and nothing in flight, a change of the
\* debounced filters makes exactly one invocation, with the new filters and
\* page 1, and leaves pagination as it is.
C7_FilterChangeOnPageOneFetchesOnce ==
    [][(/\ PFiltersDebounced
        /\ pq.pagination.page = 1
        /\ ~Outstanding(pq)) =>
          /\ pq'.pagination = pq.pagination
          /\ PStarted = <<[pagination |-> pq.pagination,
                           sort |-> pq.sort,
                           filters |-> pq.filters]>>]_vars

\* C7 (amended): the same, while `enabled` is true.
C7_EnabledFilterChangeOnPageOneFetchesOnce ==
    [][(/\ PFiltersDebounced
        /\ pq.enabled
        /\ pq.pagination.page = 1
        /\ ~Outstanding(pq)) =>
          /\ pq'.pagination = pq.pagination
          /\ PStarted = <<[pagination |-> pq.pagination,
                           sort |-> pq.sort,
                           filters |-> pq.filters]>>]_vars

\* An enabled paginated controller on page 1 with nothing in flight, whose
\* filters were changed and whose debounce timer is about to expire.
C7_Witness ==
    /\ hook = "usePaginatedQuery"
    /\ pq.alive /\ pq.enabled
    /\ pq.pagination.page = 1
    /\ ~Outstanding(pq)
    /\ pq.filters # pq.debouncedFilters
    /\ pq.data # PEmptyResult
    /\ ENABLED PTimerFire

\* C8: an invocation carries a filters value other than the debounced one only
\* in the step in which the timer, restarted by every filters change, has run
\* out, and then it is the latest filters value; a filters change itself
\* invokes nothing; a pagination or sort change invokes the producer in the
\* same step when the fetch guard is open.
C8_FiltersDebouncedPaginationSortNot ==
    [][/\ \A i \in 1..Len(PStarted) :
             \/ PStarted[i].filters = pq.debouncedFilters
             \/ pq.timer = 0 /\ PStarted[i].filters = pq.filters
       /\ \A i \in 1..Len(IStarted) :
             \/ IStarted[i].filters = iq.debouncedFilters
             \/ iq.timer = 0 /\ IStarted[i].filters = iq.filters
       /\ pq'.filters # pq.filters =>
             (pq'.timer = pq.debounceTime /\ PStarted = <<>>
              /\ pq'.debouncedFilters = pq.debouncedFilters)
       /\ iq'.filters # iq.filters =>
             (iq'.timer = iq.debounceTime /\ IStarted = <<>>
              /\ iq'.debouncedFilters = iq.debouncedFilters)
       /\ (/\ \/ \E v \in PaginationVals : PSetPagination(v)
              \/ \E v \in SortVals : PSetSort(v)
           /\ pq'.pagination # pq.pagination \/ pq'.sort # pq.sort
           /\ PFetchGuard(pq, pq.enabled)) => Len(PStarted) = 1
       /\ (/\ \E v \in SortVals : ISetSort(v)
           /\ iq'.sort # iq.sort
           /\ IFetchGuard(iq, iq.enabled)) => Len(IStarted) = 1]_vars

\* A paginated controller whose filters were changed and whose timer has not
\* run out: the debounced value is still the old one, and so are the filters
\* of the invocation a sort change made meanwhile.
C8_Witness ==
    /\ hook = "usePaginatedQuery"
    /\ pq.alive /\ pq.enabled
    /\ pq.timer > 0
    /\ pq.filters # pq.debouncedFilters
    /\ pq.sort # Undefined
    /\ pq.inflight = <<[pagination |-> pq.pagination, sort |-> pq.sort,
                        filters |-> pq.debouncedFilters]>>

C10_RefreshRegardlessOfEnabled ==
    [][(/\ PRefresh
        /\ pq.alive
        /\ ~pq.enabled
        /\ ~Outstanding(pq)) =>
          /\ Len(PStarted) = 1
          /\ PStarted[1].pagination = pq.pagination
          /\ PStarted[1].sort = pq.sort]_vars

\* C11: while `enabled` is false the paginated and the infinite controller
\* start no producer invocation: none is outstanding after a construction with
\* `enabled` false, and no step that ends with `enabled` false (a filter,
\* pagination or sort change, loadMore(), reset(), refresh(), a timer expiry)
\* starts one.
C11_NoFetchWhileDisabled ==
    /\ ~pq.enabled => pq.inflight = <<>>
    /\ ~iq.enabled => iq.inflight = <<>>
    /\ [][/\ ~pq'.enabled => PStarted = <<>>
          /\ ~iq'.enabled => IStarted = <<>>]_vars

\* A disabled infinite controller that has a next page to load and whose sort
\* and debounced filters were changed: nothing is outstanding.
C11_Witness ==
    /\ hook = "useInfiniteQuery"
    /\ iq.alive
    /\ ~iq.enabled
    /\ iq.data.meta.hasNextPage
    /\ iq.sort # Undefined
    /\ iq.debouncedFilters # Undefined
    /\ iq.inflight = <<>>

\* C12: the step that turns `enabled` from false to true starts exactly one
\* producer invocation, with the current pagination (page 1, not appending, in
\* the infinite controller), the current sort and the debounced filters.
C12_EnableFetchesOnce ==
    [][/\ (PSetEnabled /\ ~pq.enabled) =>
             PStarted = <<[pagination |-> pq.pagination,
                           sort |-> pq.sort,
                           filters |-> pq.debouncedFilters]>>
       /\ (ISetEnabled /\ ~iq.enabled) =>
             IStarted = <<[page |-> 1,
                           sort |-> iq.sort,
                           filters |-> iq.debouncedFilters,
                           append |-> FALSE]>>]_vars

\* A disabled, idle paginated controller on page 2 with a sort, a debounced
\* filters value and a newer filters value still being debounced, about to be
\* enabled.
C12_Witness ==
    /\ hook = "usePaginatedQuery"
    /\ pq.alive
    /\ ~pq.enabled
    /\ pq.inflight = <<>>
    /\ pq.pagination.page = 2
    /\ pq.sort # Undefined
    /\ pq.filters # pq.debouncedFilters
    /\ ENABLED PSetEnabled

\* C13: the step that turns `enabled` from true to false sets isLoading (and
\* isLoadingMore in the infinite controller) to false and leaves data (and
\* allData) as they are.
C13_DisableClearsLoadingKeepsData ==
    [][/\ (PSetEnabled /\ pq.enabled) =>
             (~pq'.isLoading /\ pq'.data = pq.data)
       /\ (ISetEnabled /\ iq.enabled) =>
             (~iq'.isLoading /\ ~iq'.isLoadingMore /\ iq'.data = iq.data)]_vars

\* An infinite controller disabled while an append fetch was outstanding: the
\* pages loaded so far are kept and isLoadingMore is false.
C13_Witness ==
    /\ hook = "useInfiniteQuery"
    /\ iq.alive
    /\ ~iq.enabled
    /\ IOutstanding(iq, TRUE)
    /\ ~iq.isLoadingMore
    /\ ~iq.isLoading
    /\ Len(iq.data.allData) > 0

\* A trigger of the paginated controller: refresh(), a filter, pagination or
\* sort change, the debounced filters changing.
PTrigger ==
    \/ PRefresh
    \/ \E v \in FilterVals : PSetFilters(v)
    \/ \E v \in PaginationVals : PSetPagination(v)
    \/ \E v \in SortVals : PSetSort(v)
    \/ PTimerFire

\* A trigger of the infinite controller.
ITrigger ==
    \/ IRefresh
    \/ ILoadMore
    \/ IReset
    \/ \E v \in FilterVals : ISetFilters(v)
    \/ \E v \in SortVals : ISetSort(v)
    \/ ITimerFire

\* C14: a trigger that arrives while an invocation is outstanding leaves the
\* outstanding invocations as they are and starts none, and the step in which
\* an invocation settles starts none.
C14_TriggerWhileInFlightDropped ==
    [][/\ (PTrigger /\ Outstanding(pq)) => pq'.inflight = pq.inflight
       /\ (ITrigger /\ Outstanding(iq)) => iq'.inflight = iq.inflight
       /\ PSettled => Len(pq'.inflight) = Len(pq.inflight) - 1
       /\ ISettled => Len(iq'.inflight) = Len(iq.inflight) - 1]_vars

\* C15 (as stated): a refresh() of the paginated controller that gets past
\* the fetch guard invokes the producer with the current pagination and sort
\* and the current filters, the latest value given to setFilters.
C15_RefreshUsesCurrentFilters ==
    [][(PRefresh /\ PFetchGuard(pq, pq.enabled)) =>
          PStarted = <<[pagination |-> pq.pagination,
                        sort |-> pq.sort,
                        filters |-> pq.filters]>>]_vars

\* C15 (amended): such a refresh() invokes the producer with the current
\* pagination and sort and the debounced filters; a value given to setFilters
\* whose delay has not run out is not used.
C15_RefreshUsesDebouncedFilters ==
    [][(PRefresh /\ PFetchGuard(pq, pq.enabled)) =>
          PStarted = <<[pagination |-> pq.pagination,
                        sort |-> pq.sort,
                        filters |-> pq.debouncedFilters]>>]_vars

\* An enabled, idle paginated controller whose filters were changed and whose
\* debounce timer is still pending, on which refresh() can be called.
C15_Witness ==
    /\ hook = "usePaginatedQuery"
    /\ pq.alive /\ pq.enabled
    /\ ~pq.requestInProgress
    /\ pq.timer # NoTimer
    /\ pq.filters # pq.debouncedFilters
    /\ PFetchGuard(pq, pq.enabled)
    /\ ENABLED PRefresh

\* C16: a failed producer invocation leaves data as it was before the attempt,
\* in the single-fetch and the paginated controller.
C16_FailureKeepsData ==
    [][/\ (\E i \in 1..MaxInFlight : QSettleFail(i)) => q'.data = q.data
       /\ (\E i \in 1..MaxInFlight : PSettleFail(i)) => pq'.data = pq.data]_vars

\* A mounted paginated controller showing the error of a failed invocation
\* together with the result of an earlier successful one.
C16_Witness ==
    /\ hook = "usePaginatedQuery"
    /\ pq.alive
    /\ pq.error # Null
    /\ pq.data # PEmptyResult
    /\ ~pq.isLoading
    /\ pq.inflight = <<>>

\* A trigger of the paginated controller that calls fetchData: refresh(), a
\* pagination or sort change, the debounced filters changing.
PFetchTrigger ==
    \/ PRefresh
    \/ (\E v \in PaginationVals : PSetPagination(v))
          /\ pq'.pagination # pq.pagination
    \/ (\E v \in SortVals : PSetSort(v)) /\ pq'.sort # pq.sort
    \/ PFiltersDebounced

\* A trigger of the infinite controller that calls fetchData: refresh(),
\* reset(), loadMore() with a next page, a sort change, the debounced filters
\* changing.
IFetchTrigger ==
    \/ IRefresh
    \/ IReset
    \/ ILoadMore /\ iq.data.meta.hasNextPage
    \/ (\E v \in SortVals : ISetSort(v)) /\ iq'.sort # iq.sort
    \/ ITimerFire /\ iq.filters # iq.debouncedFilters

\* C17: the settling of an invocation with a failure releases the in-flight
\* flag, and while the error of a failed attempt is shown the next trigger of
\* a mounted (and, for the paginated and infinite controllers, enabled)
\* controller starts a new producer invocation.
C17_FailureDoesNotBlock ==
    [][/\ (\E i \in 1..MaxInFlight : QSettleFail(i)) => ~q'.requestInProgress
       /\ (\E i \in 1..MaxInFlight : PSettleFail(i)) => ~pq'.requestInProgress
       /\ (\E i \in 1..MaxInFlight : ISettleFail(i)) => ~iq'.requestInProgress
       /\ (q.error # Null /\ q.alive /\ QRefresh) =>
             Len(q'.inflight) = Len(q.inflight) + 1
       /\ (pq.error # Null /\ pq.alive /\ pq.enabled /\ PFetchTrigger) =>
             Len(PStarted) = 1
       /\ (iq.error # Null /\ iq.alive /\ iq.enabled /\ IFetchTrigger) =>
             Len(IStarted) = 1]_vars

\* A mounted, enabled paginated controller showing the error of a failed
\* invocation, with the in-flight flag released and nothing outstanding, on
\* which refresh() can be called.
C17_Witness ==
    /\ hook = "usePaginatedQuery"
    /\ pq.alive /\ pq.enabled
    /\ pq.error # Null
    /\ ~pq.requestInProgress
    /\ pq.inflight = <<>>
    /\ ENABLED PRefresh

\* C18: in every controller the error stored for a failure value has as its
\* message the failure itself if it is a string, else the failure's `message`
\* if that is a string, else "Unknown error".
C18_ErrorNormalized ==
    [][LET Expected(f) ==
               CASE f = [typeof |-> "string", value |-> "API error"]
                      -> "API error"
                 [] f = [typeof |-> "object", messageTypeof |-> "string",
                         message |-> "Test error"]
                      -> "Test error"
                 [] OTHER -> "Unknown error"
       IN  \A f \in Failures : \A i \in 1..MaxInFlight :
              /\ (/\ QActive /\ i <= Len(q.inflight) /\ q.isMounted
                  /\ q' = QReject([Now(q) EXCEPT !.inflight = RemoveAt(@, i)],
                                  f))
                    => q'.error = [message |-> Expected(f)]
              /\ (/\ PActive /\ i <= Len(pq.inflight) /\ pq.isMounted
                  /\ pq' = PReject([Now(pq) EXCEPT !.inflight = RemoveAt(@, i)],
                                   f))
                    => pq'.error = [message |-> Expected(f)]
              /\ (/\ IActive /\ i <= Len(iq.inflight) /\ iq.isMounted
                  /\ iq' = IReject([Now(iq) EXCEPT !.inflight = RemoveAt(@, i)],
                                   f))
                    => iq'.error = [message |-> Expected(f)]]_vars

\* A mounted single-fetch controller whose invocation failed with a value that
\* is no string and has no string `message`.
C18_Witness ==
    /\ hook = "useQuery"
    /\ q.alive
    /\ q.error = [message |-> "Unknown error"]
    /\ ~q.isLoading
    /\ q.inflight = <<>>

\* C19 (as stated): the error of a failed attempt becomes null exactly when a
\* producer invocation starts: every start sets it to null, and no other step
\* (a setter call, a dropped trigger, an `enabled` toggle) does.
C19_ErrorClearedExactlyAtNextStart ==
    [][/\ Len(q'.inflight) > Len(q.inflight) => q'.error = Null
       /\ Len(PStarted) > 0 => pq'.error = Null
       /\ Len(IStarted) > 0 => iq'.error = Null
       /\ (q.error # Null /\ q'.error = Null) =>
             Len(q'.inflight) > Len(q.inflight)
       /\ (pq.error # Null /\ pq'.error = Null) => Len(PStarted) > 0
       /\ (iq.error # Null /\ iq'.error = Null) => Len(IStarted) > 0]_vars

\* C19 (amended): the same, except that reset() of the infinite controller
\* also sets the error to null, whether or not it starts an invocation.
C19_ErrorClearedAtNextStartOrReset ==
    [][/\ Len(q'.inflight) > Len(q.inflight) => q'.error = Null
       /\ Len(PStarted) > 0 => pq'.error = Null
       /\ Len(IStarted) > 0 => iq'.error = Null
       /\ (iq.alive /\ IReset) => iq'.error = Null
       /\ (q.error # Null /\ q'.error = Null) =>
             Len(q'.inflight) > Len(q.inflight)
       /\ (pq.error # Null /\ pq'.error = Null) => Len(PStarted) > 0
       /\ (iq.error # Null /\ iq'.error = Null) =>
             (Len(IStarted) > 0 \/ IReset)]_vars

\* A mounted, disabled infinite controller still showing the error of a failed
\* invocation after its sort was changed, on which reset() can be called.
C19_Witness ==
    /\ hook = "useInfiniteQuery"
    /\ iq.alive
    /\ ~iq.enabled
    /\ iq.error # Null
    /\ iq.sort # Undefined
    /\ iq.inflight = <<>>
    /\ ENABLED IReset

\* C20: every producer rejection that settles on a mounted controller ends as
\* error state with the loading flags false.
C20_RejectionBecomesErrorState ==
    [][/\ ((\E i \in 1..MaxInFlight : QSettleFail(i)) /\ q.isMounted) =>
             (q'.error # Null /\ ~q'.isLoading)
       /\ ((\E i \in 1..MaxInFlight : PSettleFail(i)) /\ pq.isMounted) =>
             (pq'.error # Null /\ ~pq'.isLoading)
       /\ ((\E i \in 1..MaxInFlight : ISettleFail(i)) /\ iq.isMounted) =>
             (iq'.error # Null /\ ~iq'.isLoading /\ ~iq'.isLoadingMore)]_vars

\* A mounted infinite controller with loaded pages showing the error of a
\* failed invocation, with both loading flags false.
C20_Witness ==
    /\ hook = "useInfiniteQuery"
    /\ iq.alive
    /\ iq.error # Null
    /\ Len(iq.data.allData) > 0
    /\ ~iq.isLoading
    /\ ~iq.isLoadingMore
    /\ iq.inflight = <<>>

\* C21: a single-fetch controller constructed with immediate = false starts
\* with data null (the external store's value if there is one), error null
\* and isLoading false and with no producer invocation; constructed with
\* immediate = true it starts loading with exactly one invocation; and
\* afterwards only refresh() starts an invocation.
C21_ImmediateDecidesFirstFetch ==
    /\ q.data = (IF Truthy(q.store) THEN q.store ELSE Null)
    /\ q.error = Null
    /\ ~q.immediate => (~q.isLoading /\ q.inflight = <<>>)
    /\ q.immediate => (q.isLoading /\ Len(q.inflight) = 1)
    /\ [][Len(q'.inflight) > Len(q.inflight) =>
             (QRefresh /\ Len(q'.inflight) = Len(q.inflight) + 1)]_vars

\* A single-fetch controller constructed with immediate = false and no
\* external store, after its first refresh(): one invocation is outstanding
\* and data is still null.
C21_Witness ==
    /\ hook = "useQuery"
    /\ q.alive
    /\ ~q.immediate
    /\ q.store = Undefined
    /\ q.data = Null
    /\ q.isLoading
    /\ Len(q.inflight) = 1

\* C22: a refresh() of the single-fetch controller that gets past the guard
\* sets isLoading to true and error to null and invokes the producer once; the
\* settling of the invocation on a mounted controller sets data to the
\* resolved value and leaves error null (success), or sets error and leaves
\* data as it is (failure), and sets isLoading to false.
C22_RefreshAttempt ==
    [][/\ (QRefresh /\ QFetchGuard(q)) =>
             /\ q'.isLoading
             /\ q'.error = Null
             /\ q'.data = q.data
             /\ Len(q'.inflight) = Len(q.inflight) + 1
       /\ \A i \in 1..MaxInFlight : \A result \in QResults :
             (/\ QActive /\ i <= Len(q.inflight) /\ q.isMounted
              /\ q' = QResolve([Now(q) EXCEPT !.inflight = RemoveAt(@, i)],
                              result)) =>
                (q'.data = result /\ q'.error = Null /\ ~q'.isLoading)
       /\ ((\E i \in 1..MaxInFlight : QSettleFail(i)) /\ q.isMounted) =>
             (q'.error # Null /\ q'.data = q.data /\ ~q'.isLoading)]_vars

\* A mounted single-fetch controller showing the error of a failed attempt and
\* the data of an earlier successful one, on which refresh() can be called.
C22_Witness ==
    /\ hook = "useQuery"
    /\ q.alive
    /\ q.error # Null
    /\ q.data = [id |-> 1, name |-> "x"]
    /\ ~q.isLoading
    /\ QFetchGuard(q)
    /\ ENABLED QRefresh

\* C23: the settling of an invocation with success on a mounted controller
\* calls the external setState, with the value that becomes the controller's
\* data (an undefined result included, in the single-fetch controller); no
\* other step calls it, and a failure never does.
C23_ExternalStoreWrittenOnSuccess ==
    [][/\ ((\E i \in 1..MaxInFlight : QSettleOk(i)) /\ q.isMounted) =>
             (q'.setStateCalled /\ q'.store = q'.data)
       /\ ((\E i \in 1..MaxInFlight : PSettleOk(i)) /\ pq.isMounted) =>
             (pq'.setStateCalled /\ pq'.store = pq'.data)
       /\ ((\E i \in 1..MaxInFlight : ISettleOk(i)) /\ iq.isMounted) =>
             (iq'.setStateCalled /\ iq'.store = iq'.data)
       /\ q'.setStateCalled => \E i \in 1..MaxInFlight : QSettleOk(i)
       /\ pq'.setStateCalled => \E i \in 1..MaxInFlight : PSettleOk(i)
       /\ iq'.setStateCalled => \E i \in 1..MaxInFlight : ISettleOk(i)
       /\ q'.store # q.store => q'.setStateCalled
       /\ pq'.store # pq.store => pq'.setStateCalled
       /\ iq'.store # iq.store => iq'.setStateCalled]_vars

\* A mounted paginated controller right after a successful invocation: the
\* external setState was called with the result that is now its data.
C23_Witness ==
    /\ hook = "usePaginatedQuery"
    /\ pq.alive
    /\ pq.setStateCalled
    /\ pq.store = pq.data
    /\ pq.data # PEmptyResult

\* C24: every producer invocation of the paginated controller receives as its
\* sort the value last given to setSort, unchanged.
C24_SortRoundTrip ==
    [][\A i \in 1..Len(PStarted) : PStarted[i].sort = pq'.sort]_vars

\* An enabled paginated controller whose sort was set and whose only
\* outstanding invocation, made after an earlier one succeeded, carries it.
C24_Witness ==
    /\ hook = "usePaginatedQuery"
    /\ pq.alive /\ pq.enabled
    /\ pq.sort # Undefined
    /\ pq.data # PEmptyResult
    /\ Len(pq.inflight) = 1
    /\ pq.inflight[1].sort = pq.sort

\* The infinite controller shows pages 1..n: allData is their items in order,
\* data and meta are those of page n, and the page cursor is n.
IPagesLoaded(s, n) ==
    /\ s.data.allData = [j \in 1..n |-> j]
    /\ s.data.data = <<n>>
    /\ s.data.meta.page = n
    /\ s.currentPageRef = n

\* C25: the first-page invocation settling with success leaves the controller
\* showing page 1; with pages 1..n shown, nothing outstanding and a next page
\* announced, loadMore() makes exactly one invocation, for page n+1; when it
\* settles with success the controller shows pages 1..n+1; a settling makes
\* no invocation.
C25_LoadMoreConcatenates ==
    [][/\ (/\ ISettleOk(1) /\ iq.isMounted /\ Len(iq.inflight) = 1
           /\ iq.inflight[1].page = 1 /\ ~iq.inflight[1].append) =>
             IPagesLoaded(iq', 1)
       /\ \A n \in 1..MaxPage :
             /\ (/\ ILoadMore /\ iq.alive /\ iq.enabled /\ iq.inflight = <<>>
                 /\ IPagesLoaded(iq, n) /\ iq.data.meta.hasNextPage) =>
                   /\ IStarted = <<[page |-> n + 1,
                                    sort |-> iq.sort,
                                    filters |-> iq.debouncedFilters,
                                    append |-> TRUE]>>
                   /\ iq'.data = iq.data
             /\ (/\ ISettleOk(1) /\ iq.isMounted /\ Len(iq.inflight) = 1
                 /\ IPagesLoaded(iq, n)
                 /\ iq.inflight[1].page = n + 1 /\ iq.inflight[1].append) =>
                   IPagesLoaded(iq', n + 1)
       /\ ISettled => Len(iq'.inflight) = Len(iq.inflight) - 1]_vars

\* A mounted infinite controller after the first page and one loadMore():
\* allData holds the items of pages 1 and 2 in order, nothing is outstanding.
C25_Witness ==
    /\ hook = "useInfiniteQuery"
    /\ iq.alive
    /\ IPagesLoaded(iq, 2)
    /\ iq.inflight = <<>>
    /\ ~iq.isLoadingMore

\* C26 (with "in flight" meaning an invocation is outstanding): loadMore()
\* changes nothing and invokes nothing when an invocation is outstanding or
\* when the metadata shown announces no next page.
C26_LoadMoreNoOp ==
    [][(ILoadMore /\ (Outstanding(iq) \/ ~iq.data.meta.hasNextPage)) =>
          iq' = Now(iq)]_vars

\* C27: in the infinite controller isLoading is false while a loadMore()
\* invocation is outstanding, isLoadingMore is false while a first-page
\* invocation is outstanding, and the two flags are never both true.
C27_LoadingFlagsSeparate ==
    iq.alive =>
        /\ IOutstanding(iq, TRUE) => ~iq.isLoading
        /\ IOutstanding(iq, FALSE) => ~iq.isLoadingMore
        /\ ~(iq.isLoading /\ iq.isLoadingMore)

\* C28: a loadMore() invocation settling with a failure on a mounted infinite
\* controller leaves allData, data and meta as they are and sets error to the
\* normalized error; loadMore() itself changes none of the three.
C28_FailedLoadMoreKeepsPages ==
    [][/\ \A i \in 1..Len(iq.inflight) :
             (ISettleFail(i) /\ iq.isMounted /\ iq.inflight[i].append) =>
                 /\ iq'.data = iq.data
                 /\ iq'.currentPageRef = iq.currentPageRef
                 /\ \E failure \in Failures : iq'.error = NewError(failure)
       /\ ILoadMore => iq'.data = iq.data]_vars

\* Page 1 is shown, the loadMore() invocation for page 2 is outstanding, and
\* it may settle with a failure.
C28_Witness ==
    /\ hook = "useInfiniteQuery"
    /\ iq.alive
    /\ IPagesLoaded(iq, 1)
    /\ iq.error = Null
    /\ Len(iq.inflight) = 1
    /\ iq.inflight[1].append
    /\ ENABLED ISettleFail(1)

\* C29: on a mounted, enabled infinite controller with no request in
\* progress, refresh() sets the page cursor to 1 and starts exactly one
\* invocation, for page 1, not appending; a not-appending invocation settling
\* with success makes allData exactly the items of its page (page 1) and
\* leaves the cursor at 1.
C29_RefreshReplacesPages ==
    [][/\ (IRefresh /\ iq.isMounted /\ iq.enabled /\ ~iq.requestInProgress) =>
             /\ IStarted = <<[page |-> 1,
                              sort |-> iq.sort,
                              filters |-> iq.debouncedFilters,
                              append |-> FALSE]>>
             /\ iq'.currentPageRef = 1
       /\ \A i \in 1..Len(iq.inflight) :
             (ISettleOk(i) /\ iq.isMounted /\ ~iq.inflight[i].append) =>
                 /\ iq.inflight[i].page = 1
                 /\ iq'.data.allData = <<1>>
                 /\ iq'.data.data = <<1>>
                 /\ iq'.data.meta.page = 1
                 /\ iq'.currentPageRef = 1]_vars

\* Pages 1 and 2 are shown, filters and sort were never changed, the cursor
\* is back at 1 and a not-appending invocation for page 1 is outstanding and
\* may settle with success.
C29_Witness ==
    /\ hook = "useInfiniteQuery"
    /\ iq.alive
    /\ iq.filters = Undefined
    /\ iq.sort = Undefined
    /\ iq.prevSortRef = Undefined
    /\ iq.data.allData = <<1, 2>>
    /\ iq.currentPageRef = 1
    /\ iq.isLoading
    /\ iq.inflight = <<[page |-> 1,
                        sort |-> iq.sort,
                        filters |-> iq.debouncedFilters,
                        append |-> FALSE]>>
    /\ ENABLED ISettleOk(1)

\* C30 as stated: reset() on a mounted infinite controller puts back the
\* empty result, clears error, sets the cursor to 1 and, when enabled, starts
\* an invocation for page 1 in the same step.
C30_ResetFetchesWhenEnabled ==
    [][(IReset /\ iq.alive) =>
          /\ iq'.data = IEmptyResult
          /\ iq'.error = Null
          /\ iq'.currentPageRef = 1
          /\ iq.enabled =>
                IStarted = <<[page |-> 1,
                              sort |-> iq.sort,
                              filters |-> iq.debouncedFilters,
                              append |-> FALSE]>>]_vars

\* C30 amended: reset() on a mounted infinite controller puts back the empty
\* result, clears error and sets the cursor to 1; it starts an invocation for
\* page 1 in the same step when enabled and no request is in progress, and
\* starts none otherwise.
C30_ResetFetchesWhenEnabledAndIdle ==
    [][(IReset /\ iq.alive) =>
          /\ iq'.data = IEmptyResult
          /\ iq'.error = Null
          /\ iq'.currentPageRef = 1
          /\ IF iq.enabled /\ ~iq.requestInProgress
             THEN /\ IStarted = <<[page |-> 1,
                                   sort |-> iq.sort,
                                   filters |-> iq.debouncedFilters,
                                   append |-> FALSE]>>
                  /\ iq'.isLoading
             ELSE IStarted = <<>>]_vars

\* reset() has acted on an idle, enabled controller that showed pages 1 and
\* 2 (the external store still holds them): the result is empty, the error
\* cleared, and the only outstanding invocation is the one for page 1.
C30_Witness ==
    /\ hook = "useInfiniteQuery"
    /\ iq.alive
    /\ iq.enabled
    /\ iq.data = IEmptyResult
    /\ iq.error = Null
    /\ iq.currentPageRef = 1
    /\ iq.isLoading
    /\ iq.store # Undefined
    /\ iq.store.allData = <<1, 2>>
    /\ iq.inflight = <<[page |-> 1,
                        sort |-> iq.sort,
                        filters |-> iq.debouncedFilters,
                        append |-> FALSE]>>

\* C31: in the infinite controller a sort change or a debounced filter change
\* on a mounted, enabled controller sets the page cursor to 1, and every
\* result applied afterwards was fetched with the sort and the debounced
\* filters current when it is applied: a result applied, appended or not,
\* never belongs to a previous sort or filter value.
C31_FilterSortChangeReplaces ==
    [][/\ (/\ IActive /\ iq.alive /\ iq.enabled /\ iq'.enabled
           /\ (iq'.sort # iq.sort
                 \/ iq'.debouncedFilters # iq.debouncedFilters)) =>
             iq'.currentPageRef = 1
       /\ \A i \in 1..Len(iq.inflight) :
             (ISettleOk(i) /\ iq.isMounted) =>
                 /\ iq.inflight[i].sort = iq.sort
                 /\ iq.inflight[i].filters = iq.debouncedFilters]_vars

\* C32: allData of a mounted infinite controller is the concatenation, in
\* fetch order, of the pages fetched successfully since the last reset,
\* refresh or filter-or-sort change. Step by step: reset() empties it; a
\* success of an appending invocation made for the current sort and debounced
\* filters adds its page at the end; any other success (a first-page fetch,
\* or a page whose sort or filters were changed since it was requested)
\* leaves that page alone; no other step changes allData.
C32_AllDataIsConcatenation ==
    [][/\ \A i \in 1..Len(iq.inflight) :
             (ISettleOk(i) /\ iq.isMounted) =>
                 IF /\ iq.inflight[i].append
                    /\ iq.inflight[i].sort = iq.sort
                    /\ iq.inflight[i].filters = iq.debouncedFilters
                 THEN iq'.data.allData =
                          iq.data.allData \o <<iq.inflight[i].page>>
                 ELSE iq'.data.allData = <<iq.inflight[i].page>>
       /\ (IReset /\ iq.alive) => iq'.data.allData = <<>>
       /\ (~(\E i \in 1..Len(iq.inflight) : ISettleOk(i))
             /\ ~(IReset /\ iq.alive)) =>
             iq'.data.allData = iq.data.allData]_vars

\* C33 as stated: the timer that fires after a burst of changes of the input
\* changes the output, to the latest input value, no earlier than `delay`
\* after the last change, and leaves no timer pending (so the output changes
\* once); the output changes in no other step.
C33_BurstChangesOutputExactlyOnce ==
    [][/\ \A i \in 1..Len(db.timers) :
             (DTimerFire(i) /\ db.alive /\ db.burst > 0) =>
                 /\ db'.debouncedValue = db.value
                 /\ db'.debouncedValue # db.debouncedValue
                 /\ db.quiet >= db.delay
                 /\ db'.timers = <<>>
       /\ db'.debouncedValue # db.debouncedValue =>
             \E i \in 1..Len(db.timers) : DTimerFire(i)]_vars

\* C33 amended: the timer that fires after a burst sets the output to the
\* latest input value, no earlier than `delay` after the last change, and
\* leaves no timer pending; the output changes in no other step, so it
\* changes at most once, and not at all when the burst ends on the value the
\* output already has.
C33_BurstSetsOutputOnce ==
    [][/\ \A i \in 1..Len(db.timers) :
             (DTimerFire(i) /\ db.alive /\ db.burst > 0) =>
                 /\ db'.debouncedValue = db.value
                 /\ db.quiet >= db.delay
                 /\ db'.timers = <<>>
       /\ db'.debouncedValue # db.debouncedValue =>
             /\ \E i \in 1..Len(db.timers) : DTimerFire(i)
             /\ db.burst > 0]_vars

\* A burst of two changes has ended on a value other than the output, the
\* delay has passed and the timer is about to fire.
C33_Witness ==
    /\ hook = "useDebounce"
    /\ db.alive
    /\ db.burst = 2
    /\ db.value # db.debouncedValue
    /\ db.quiet >= db.delay
    /\ ENABLED DTimerFire(1)

\* C34: if from some point on the component stays mounted and the inputs
\* (value and delay) no longer change, then from some point on the output
\* equals the latest value, however often the timer was restarted before.
C34_DebounceConverges ==
    \A v \in DebounceVals : \A d \in DebounceDelays :
        <>[](db.alive /\ db.value = v /\ db.delay = d) =>
            <>[](db.debouncedValue = v)

\* The timer has just been restarted by the second change of a burst; the
\* output still has another value than the input.
C34_Witness ==
    /\ hook = "useDebounce"
    /\ db.alive
    /\ db.burst = 2
    /\ db.value # db.debouncedValue
    /\ db.timers = <<[value |-> db.value, left |-> db.delay]>>

\* C35: at most one timer is pending at any time, and it is the one set for
\* the current value and delay; after teardown no timer is pending and the
\* output does not change.
C35_AtMostOnePendingTimer ==
    /\ [](/\ Len(db.timers) <= 1
          /\ \A i \in 1..Len(db.timers) :
                /\ db.timers[i].value = db.value
                /\ db.timers[i].left <= db.delay
          /\ ~db.alive => db.timers = <<>>)
    /\ [][~db.alive => db'.debouncedValue = db.debouncedValue]_vars

\* The component was unmounted while the timer of a changed value was
\* pending: no timer is left and the output still has the old value.
C35_Witness ==
    /\ hook = "useDebounce"
    /\ ~db.alive
    /\ db.burst > 0
    /\ db.value # db.debouncedValue
    /\ db.timers = <<>>

\* C36: in the paginated controller setPagination or setSort with a value
\* equal in content to the current one starts no producer invocation, and
\* neither does setFilters with such a value, in the call or when its
\* debounce timer fires.
C36_EqualContentNeverFetches ==
    [][/\ \A v \in PaginationObjs :
             (PSetPagination(v) /\ Content(v) = Content(pq.pagination)) =>
                 PStarted = <<>>
       /\ \A v \in SortObjs :
             (PSetSort(v) /\ Content(v) = Content(pq.sort)) => PStarted = <<>>
       /\ \A v \in FilterObjs :
             (PSetFilters(v) /\ Content(v) = Content(pq.filters)) =>
                 PStarted = <<>>
       /\ (PTimerFire
             /\ Content(pq'.debouncedFilters) = Content(pq.debouncedFilters)) =>
             PStarted = <<>>]_vars

\* The number of the page last put into allData (its items are that number).
LastPage(allData) == IF allData = <<>> THEN 0 ELSE allData[Len(allData)]

\* C37: every invocation loadMore() starts on a mounted infinite controller
\* requests the page after the last page contained in allData, and allData
\* never contains a page twice.
C37_AppendFetchesNextPage ==
    /\ [](iq.alive =>
            \A i, j \in 1..Len(iq.data.allData) :
                i # j => iq.data.allData[i] # iq.data.allData[j])
    /\ [][(ILoadMore /\ iq.alive /\ IStarted # <<>>) =>
             IStarted[1].page = LastPage(iq.data.allData) + 1]_vars

\* C38: in every controller the stored error is null whenever isLoading or
\* isLoadingMore is true: a step that starts an invocation leaves the error
\* null, and a step that sets an error leaves the loading flags false.
C38_LoadingImpliesNoError ==
    /\ [](/\ q.isLoading => q.error = Null
          /\ pq.isLoading => pq.error = Null
          /\ (iq.isLoading \/ iq.isLoadingMore) => iq.error = Null)
    /\ [][/\ Len(q'.inflight) > Len(q.inflight) => q'.error = Null
          /\ Len(pq'.inflight) > Len(pq.inflight) => pq'.error = Null
          /\ Len(iq'.inflight) > Len(iq.inflight) => iq'.error = Null
          /\ (q'.error # q.error /\ q'.error # Null) => ~q'.isLoading
          /\ (pq'.error # pq.error /\ pq'.error # Null) => ~pq'.isLoading
          /\ (iq'.error # iq.error /\ iq'.error # Null) =>
                (~iq'.isLoading /\ ~iq'.isLoadingMore)]_vars

\* A mounted, enabled infinite controller shows the error of a failed
\* request next to page 1, nothing is in progress, and the next loadMore()
\* will start an invocation.
C38_Witness ==
    /\ hook = "useInfiniteQuery"
    /\ iq.alive
    /\ iq.enabled
    /\ iq.error # Null
    /\ ~iq.isLoading
    /\ ~iq.isLoadingMore
    /\ ~iq.requestInProgress
    /\ iq.data.allData = <<1>>
    /\ iq.data.meta.hasNextPage
    /\ ENABLED ILoadMore

\* C39: when the debounced filters of a mounted, enabled paginated controller
\* change, the pagination becomes the same object with page 1 if it has a
\* page field other than 1, and stays as it is otherwise (page 1, or no page
\* field); the sort stays as it is. While disabled neither changes.
C39_FilterChangeOnlyResetsPage ==
    [][(/\ PTimerFire
        /\ pq.alive
        /\ pq'.debouncedFilters # pq.debouncedFilters) =>
          /\ pq'.sort = pq.sort
          /\ pq'.pagination =
                IF /\ pq.enabled
                   /\ "page" \in DOMAIN pq.pagination
                   /\ pq.pagination.page # 1
                THEN [pq.pagination EXCEPT !.page = 1]
                ELSE pq.pagination]_vars

\* An enabled controller on page 2 with the other limit, whose debounce
\* timer is due with changed filters.
C39_Witness ==
    /\ hook = "usePaginatedQuery"
    /\ pq.alive
    /\ pq.enabled
    /\ pq.pagination = [page |-> 2, limit |-> 2 * DefaultLimit]
    /\ pq.filters # pq.debouncedFilters
    /\ pq.timer = 0
    /\ ENABLED PTimerFire

\* C40: while `enabled` is false a settling invocation does not change data
\* (or allData) of the paginated and infinite controllers: the response to an
\* invocation started before `enabled` became false is not applied.
C40_NoResponseAppliedWhileDisabled ==
    [][/\ (PSettled /\ ~pq.enabled) => pq'.data = pq.data
       /\ (ISettled /\ ~iq.enabled) => iq'.data = iq.data]_vars

====
